---- MODULE Spec2Model ----
(***************************************************************************)
(* Model of the code-parser service.                                       *)
(*                                                                         *)
(* Part I  (Spec, FairSpec): the PostgreSQL job queue, the worker loops    *)
(*   of WorkerManager and the batch pipeline of                            *)
(*   ParsingService.parse_repository, with database transactions made      *)
(*   explicit (uncommitted writes, row locks, commit, rollback).  Files    *)
(*   are identified by their position in the sorted discovery manifest.    *)
(*                                                                         *)
(* Part II (ParseSpec): one repository parsed and reparsed by a single     *)
(*   job, with the Python parser's symbols and references, the per-file    *)
(*   bulk insert and the cross-file resolution statement in full.          *)
(*                                                                         *)
(* Part III (FlowSpec): concurrent generate-flow requests, each with its    *)
(*   iterations of LLM calls and its delete-then-insert transaction on      *)
(*   entry_point_flows under the UNIQUE(entry_point_id) constraint.         *)
(*                                                                         *)
(* Part IV (DetectSpec): entry-point detection calls: the optional          *)
(*   delete of the stored rows, the selection of files, the batches of      *)
(*   LLM confirmations with their confidence filter, and the store and      *)
(*   commit after each batch; the process may die at any await.             *)
(*                                                                         *)
(* Part V (GraphSpec): the recursive downstream and upstream queries of     *)
(*   the call graph over a references table, at several depths.             *)
(*                                                                         *)
(* Part VI (BackoffSpec): the waits of the worker loops: the poll           *)
(*   interval, the backoff multiplier and the sleep after an error.         *)
(***************************************************************************)
EXTENDS Integers, Sequences, FiniteSets, TLC

\* ------------------------------------------------------------------ bounds
MaxJobs == 2
MaxFiles == 3
BatchSize == 2
MaxDisk == 3
MaxParses == 2
MaxEntryPoints == 1

MaxGenerations == 3
MaxSteps == 1
MaxAnalyze == 6
MaxReported == 2
MaxCalls == 2
MaxDepth == 3

\* Settings.max_files_per_batch
MaxFilesPerBatch == 100
\* FlowService.generate_flow: for iteration in range(1, 5)
Iterations == 4
\* EntryPointService.detect_entry_points: batch_size=5, MAX_FILES_FOR_AI
DetectBatchSize == 5
MaxFilesForAI == 60
\* AIService._min_confidence = 0.7; confidences are counted in tenths
MinConfidence == 7
\* WorkerManager._worker_loop: min(backoff_multiplier * 1.5, 10.0) and
\* asyncio.sleep(poll_interval * 2)
BackoffCap == 10
ErrorFactor == 2
\* The value 1.0 of a float counted in 64ths
Unit == 64

NULL == "null"
TS == "ts"

Workers == {"w0", "w1"}
Repos == {"r1"}
Errors == {"db_error", "io_error"}
\* Which files report parse errors is an input of a parse: the file at this
\* manifest position may or may not parse, every other file parses.
Fragile == {2}
JobIds == 1..MaxJobs
\* Concurrent generate-flow HTTP requests, the entry points stored for the
\* repository, and the entry point ids a request may name.
Requests == {"q0", "q1"}
StoredEntryPoints == {"e1", "e2"}
EntryPointIds == StoredEntryPoints \cup {"e9"}
\* The ways the LLM call of an iteration fails, and what a call that does
\* not fail returns: the number of steps of its answer.
LLMFailures == {"network", "bad_json"}
LLMOutcomes ==
    {[error |-> f, steps |-> 0] : f \in LLMFailures}
        \cup {[error |-> NULL, steps |-> n] : n \in 0..MaxSteps}

VARIABLES
    jobs,       \* parsing_jobs table (committed rows), in created_at order
    repos,      \* repositories table (committed rows)
    files,      \* files table: repo -> manifest positions with a stored row
    wk,         \* per worker: position in _worker_loop and its locals
    shutdown,   \* WorkerManager._shutdown_event
    claimers,   \* history: job -> workers claim_next returned it to
    execs,      \* history: job -> number of parse_repository runs
    finals,     \* history: job -> number of mark_completed/mark_failed
    disk,       \* Part II: the repository's source files (sorted manifest)
    pfiles,     \* Part II: files table rows
    symbols,    \* Part II: symbols table rows
    refs,       \* Part II: references table rows
    nextId,     \* Part II: next fresh row id
    pst,        \* Part II: position in parse_repository and its locals
    snap,       \* Part II: history: what was stored when the parse began
    prepo,      \* Part II: the repository's row
    peps,       \* Part II: entry_points rows of the repository
    pflows,     \* Part II: entry_point_flows rows of the repository
    flows,      \* Part III: entry_point_flows table (committed rows)
    fl,         \* Part III: per request: position in generate_flow, locals,
                \*           and its transaction's uncommitted writes
    flowId,     \* Part III: next fresh flow id
    gens,       \* Part III: number of generate-flow requests received
    eps,        \* Part IV: entry_points table (committed rows)
    cands,      \* Part IV: entry_point_candidates table (committed rows)
    det,        \* Part IV: position in detect_entry_points and its locals
    epId,       \* Part IV: next fresh entry point id
    ncalls,     \* Part IV: number of detection calls received
    grefs,      \* Part V: references table rows
    gq,         \* Part V: the graph queries made and their results
    poll,       \* Part VI: Settings.job_poll_interval_seconds
    bk          \* Part VI: per worker: position in _worker_loop, its
                \*          backoff_multiplier and its last wait_time

qvars == <<jobs, repos, files, wk, shutdown, claimers, execs, finals>>
pvars == <<disk, pfiles, symbols, refs, nextId, pst, snap, prepo,
           peps, pflows>>
fvars == <<flows, fl, flowId, gens>>
dvars == <<eps, cands, det, epId, ncalls>>
gvars == <<grefs, gq>>
bvars == <<poll, bk>>
vars == <<jobs, repos, files, wk, shutdown, claimers, execs, finals,
          disk, pfiles, symbols, refs, nextId, pst, snap, prepo,
          peps, pflows,
          flows, fl, flowId, gens, eps, cands, det, epId, ncalls,
          grefs, gq, poll, bk>>
\* What the actions of one part leave alone: the state of the other parts.
notq == <<pvars, fvars, dvars, gvars, bvars>>
notp == <<qvars, fvars, dvars, gvars, bvars>>
notf == <<qvars, pvars, dvars, gvars, bvars>>
notd == <<qvars, pvars, fvars, gvars, bvars>>
notg == <<qvars, pvars, fvars, dvars, bvars>>
notb == <<qvars, pvars, fvars, dvars, gvars>>

Min(a, b) == IF a <= b THEN a ELSE b

\* ------------------------------------------------------------ Part I: rows

\* JobRepository.create: a new row in status pending.
NewJob(r) ==
    [repo |-> r, status |-> "pending", worker_id |-> NULL,
     started_at |-> NULL, completed_at |-> NULL, error_message |-> NULL]

\* RepoRepository.create: status pending, counters at their column defaults.
NewRepo ==
    [exists |-> TRUE, status |-> "pending", total_files |-> 0,
     parsed_files |-> 0, error_message |-> NULL]

NoRepo ==
    [exists |-> FALSE, status |-> "pending", total_files |-> 0,
     parsed_files |-> 0, error_message |-> NULL]

\* Repository.progress_percentage, in whole percent scaled by total_files:
\* the value is parsed_files / total_files * 100, 0 when total_files is 0.
\* The pair <<numerator, denominator>> is kept exact.
ProgressNum(r) == IF r.total_files = 0 THEN 0 ELSE r.parsed_files * 100
ProgressDen(r) == IF r.total_files = 0 THEN 1 ELSE r.total_files

\* Locals of a worker that is not processing a job.
IdleLocals(pc) ==
    [pc |-> pc, job |-> 0, total |-> 0, i |-> 0, tx |-> {}, exc |-> NULL,
     log |-> <<>>, done |-> {}, failedAt |-> 0]

\* A row lock taken by the FOR UPDATE of a claim whose session has not
\* committed yet.
Locked(j) == \E w \in Workers : wk[w].pc = "claim_commit" /\ wk[w].job = j

\* The subquery of claim_next: pending rows, skipping locked ones.
ClaimCandidates_NoSkipLocked ==
    {j \in 1..Len(jobs) : jobs[j].status = "pending"}

ClaimCandidates ==
    {j \in 1..Len(jobs) : jobs[j].status = "pending" /\ ~Locked(j)}

\* ORDER BY created_at LIMIT 1
FirstOf(S) == CHOOSE j \in S : \A k \in S : j <= k

\* --------------------------------------------------------- Part I: actions

\* POST /repos: create_repository inserts the repository and its first job.
CreateRepository(r) ==
    /\ ~repos[r].exists
    /\ Len(jobs) < MaxJobs
    /\ repos' = [repos EXCEPT ![r] = NewRepo]
    /\ jobs' = Append(jobs, NewJob(r))
    /\ UNCHANGED <<files, wk, shutdown, claimers, execs, finals>>
    /\ UNCHANGED notq

\* POST /repos/{id}/parse: trigger_reparse queues another job.
TriggerReparse(r) ==
    /\ repos[r].exists
    /\ Len(jobs) < MaxJobs
    /\ jobs' = Append(jobs, NewJob(r))
    /\ UNCHANGED <<repos, files, wk, shutdown, claimers, execs, finals>>
    /\ UNCHANGED notq

\* A variant of stop that cancels the worker tasks instead of awaiting them.
Stop_Cancels ==
    /\ ~shutdown
    /\ shutdown' = TRUE
    /\ wk' = [w \in Workers |-> [wk[w] EXCEPT !.pc = "stopped"]]
    /\ UNCHANGED <<jobs, repos, files, claimers, execs, finals>>
    /\ UNCHANGED notq

\* WorkerManager.stop: sets the shutdown event (and then awaits the workers).
Stop ==
    /\ ~shutdown
    /\ shutdown' = TRUE
    /\ UNCHANGED <<jobs, repos, files, wk, claimers, execs, finals>>
    /\ UNCHANGED notq

\* _worker_loop head with the event set: the loop ends.
WorkerExit(w) ==
    /\ wk[w].pc = "loop"
    /\ shutdown
    /\ wk' = [wk EXCEPT ![w] = IdleLocals("stopped")]
    /\ UNCHANGED <<jobs, repos, files, shutdown, claimers, execs, finals>>
    /\ UNCHANGED notq

\* _try_claim_job / claim_next: the UPDATE ... RETURNING statement.  The row
\* is locked and returned to the caller; the new status becomes visible to
\* others when the session commits (CommitClaim).
ClaimNext(w) ==
    /\ wk[w].pc = "loop"
    /\ ~shutdown
    /\ IF ClaimCandidates # {}
       THEN LET j == FirstOf(ClaimCandidates) IN
            /\ wk' = [wk EXCEPT ![w] = [IdleLocals("claim_commit") EXCEPT !.job = j]]
            /\ claimers' = [claimers EXCEPT ![j] = @ \cup {w}]
       ELSE /\ wk' = [wk EXCEPT ![w] = IdleLocals("wait")]
            /\ UNCHANGED claimers
    /\ UNCHANGED <<jobs, repos, files, shutdown, execs, finals>>
    /\ UNCHANGED notq

\* session() exit of _try_claim_job: commit, which releases the row lock.
CommitClaim(w) ==
    /\ wk[w].pc = "claim_commit"
    /\ jobs' = [jobs EXCEPT ![wk[w].job] =
                  [@ EXCEPT !.status = "parsing", !.worker_id = w,
                            !.started_at = TS]]
    /\ wk' = [wk EXCEPT ![w].pc = "process"]
    /\ UNCHANGED <<repos, files, shutdown, claimers, execs, finals>>
    /\ UNCHANGED notq

\* A variant in which a worker that found the queue empty ends its loop.
WaitDone_Ends(w) ==
    /\ wk[w].pc = "wait"
    /\ wk' = [wk EXCEPT ![w].pc = "stopped"]
    /\ UNCHANGED <<jobs, repos, files, shutdown, claimers, execs, finals>>
    /\ UNCHANGED notq

\* The wait of an idle worker ends: by its timeout or by the shutdown event.
WaitDone(w) ==
    /\ wk[w].pc = "wait"
    /\ wk' = [wk EXCEPT ![w].pc = "loop"]
    /\ UNCHANGED <<jobs, repos, files, shutdown, claimers, execs, finals>>
    /\ UNCHANGED notq

RepoOf(w) == jobs[wk[w].job].repo

\* Number of the batch the worker is at (1-based).
BatchNo(w) == (wk[w].i \div BatchSize) + 1

\* files[i : i + batch_size] as manifest positions.
BatchOf(w) == (wk[w].i + 1)..Min(wk[w].i + BatchSize, wk[w].total)

\* _process_job -> parse_repository: load the repository, set it to parsing
\* and commit.
StartParse(w) ==
    /\ wk[w].pc = "process"
    /\ repos' = [repos EXCEPT ![RepoOf(w)].status = "parsing"]
    /\ execs' = [execs EXCEPT ![wk[w].job] = @ + 1]
    /\ wk' = [wk EXCEPT ![w].pc = "discover"]
    /\ UNCHANGED <<jobs, files, shutdown, claimers, finals>>
    /\ UNCHANGED notq

\* A variant that stores the new total and leaves parsed_files as it was.
Discover_NoReset(w, n) ==
    /\ wk[w].pc = "discover"
    /\ repos' = [repos EXCEPT ![RepoOf(w)].total_files = n]
    /\ wk' = [wk EXCEPT ![w] =
                [@ EXCEPT !.total = n, !.i = 0,
                          !.pc = IF n > 0 THEN "batch" ELSE "resolve"]]
    /\ UNCHANGED <<jobs, files, shutdown, claimers, execs, finals>>
    /\ UNCHANGED notq

\* discover_files, update_repo_tree, update_progress(total, 0), commit.
\* The directory may hold any number n of admitted files at that moment.
Discover(w, n) ==
    /\ wk[w].pc = "discover"
    /\ repos' = [repos EXCEPT ![RepoOf(w)] =
                   [@ EXCEPT !.total_files = n, !.parsed_files = 0]]
    /\ wk' = [wk EXCEPT ![w] =
                [@ EXCEPT !.total = n, !.i = 0,
                          !.pc = IF n > 0 THEN "batch" ELSE "resolve"]]
    /\ UNCHANGED <<jobs, files, shutdown, claimers, execs, finals>>
    /\ UNCHANGED notq

\* One iteration of the batch loop up to its commit: _parse_batch and
\* _persist_parsed_file for every file parsed without errors (ok).  The rows
\* are flushed into the open transaction, not committed.
PersistBatch(w, ok) ==
    /\ wk[w].pc = "batch"
    /\ ok \subseteq BatchOf(w)
    /\ wk' = [wk EXCEPT ![w] =
                [@ EXCEPT !.tx = ok, !.pc = "commit",
                          !.log = Append(@, <<"persist", BatchNo(w)>>)]]
    /\ UNCHANGED <<jobs, repos, files, shutdown, claimers, execs, finals>>
    /\ UNCHANGED notq

\* A variant that never commits a batch on its own: the rows stay in the
\* open transaction until the end of the parse.
CommitBatch_NoCommit(w) ==
    /\ wk[w].pc = "commit"
    /\ wk' = [wk EXCEPT ![w] =
                [@ EXCEPT !.done = @ \cup wk[w].tx,
                          !.i = @ + BatchSize,
                          !.pc = IF wk[w].i + BatchSize < wk[w].total
                                 THEN "batch" ELSE "resolve"]]
    /\ UNCHANGED <<jobs, repos, files, shutdown, claimers, execs, finals>>
    /\ UNCHANGED notq

\* End of a batch iteration: update_progress(total, min(i + batch_size,
\* total)) and session.commit().
CommitBatch(w) ==
    /\ wk[w].pc = "commit"
    /\ files' = [files EXCEPT ![RepoOf(w)] = @ \cup wk[w].tx]
    /\ repos' = [repos EXCEPT ![RepoOf(w)] =
                   [@ EXCEPT !.total_files = wk[w].total,
                             !.parsed_files =
                                 Min(wk[w].i + BatchSize, wk[w].total)]]
    /\ wk' = [wk EXCEPT ![w] =
                [@ EXCEPT !.tx = {},
                          !.done = @ \cup wk[w].tx,
                          !.i = @ + BatchSize,
                          !.log = Append(@, <<"commit", BatchNo(w)>>),
                          !.pc = IF wk[w].i + BatchSize < wk[w].total
                                 THEN "batch" ELSE "resolve"]]
    /\ UNCHANGED <<jobs, shutdown, claimers, execs, finals>>
    /\ UNCHANGED notq

\* What the statements of the try block raise: discover_files raises for a
\* root path that is not a directory, the statements after it are database
\* calls and raise the driver's error.
ErrorAt(pc) == IF pc = "discover" THEN "io_error" ELSE "db_error"

\* An exception raised inside the try block of parse_repository: during
\* discovery, during a batch (before or after rows were flushed) or during
\* the final resolution.
Fail(w, e) ==
    /\ wk[w].pc \in {"discover", "batch", "commit", "resolve"}
    /\ e = ErrorAt(wk[w].pc)
    /\ wk' = [wk EXCEPT ![w] =
                [@ EXCEPT !.exc = e, !.pc = "handler",
                          !.failedAt = IF wk[w].pc \in {"batch", "commit"}
                                       THEN BatchNo(w) ELSE 0]]
    /\ UNCHANGED <<jobs, repos, files, shutdown, claimers, execs, finals>>
    /\ UNCHANGED notq

\* A variant that starts the resolution while the last batch is still
\* uncommitted.
ResolveComplete_Early(w) ==
    /\ wk[w].pc \in {"commit", "resolve"}
    /\ files' = [files EXCEPT ![RepoOf(w)] = @ \cup wk[w].tx]
    /\ repos' = [repos EXCEPT ![RepoOf(w)].status = "completed"]
    /\ wk' = [wk EXCEPT ![w] =
                [@ EXCEPT !.tx = {}, !.pc = "mark_completed",
                          !.log = Append(@, <<"resolve", 0>>)]]
    /\ UNCHANGED <<jobs, shutdown, claimers, execs, finals>>
    /\ UNCHANGED notq

\* After the last batch: update_languages, resolve_cross_file_references,
\* update_status(COMPLETED), commit.
ResolveComplete(w) ==
    /\ wk[w].pc = "resolve"
    /\ files' = [files EXCEPT ![RepoOf(w)] = @ \cup wk[w].tx]
    /\ repos' = [repos EXCEPT ![RepoOf(w)].status = "completed"]
    /\ wk' = [wk EXCEPT ![w] =
                [@ EXCEPT !.tx = {}, !.pc = "mark_completed",
                          !.log = Append(@, <<"resolve", 0>>)]]
    /\ UNCHANGED <<jobs, shutdown, claimers, execs, finals>>
    /\ UNCHANGED notq

\* The except block of parse_repository: rollback, update_status(FAILED,
\* str(e)), commit, re-raise.
FailHandler(w) ==
    /\ wk[w].pc = "handler"
    /\ repos' = [repos EXCEPT ![RepoOf(w)] =
                   [@ EXCEPT !.status = "failed",
                             !.error_message = wk[w].exc]]
    /\ wk' = [wk EXCEPT ![w] = [@ EXCEPT !.tx = {}, !.pc = "mark_failed"]]
    /\ UNCHANGED <<jobs, files, shutdown, claimers, execs, finals>>
    /\ UNCHANGED notq

\* JobRepository.mark_failed: the values written to the job row.
MarkFailedRow(row, e) ==
    [row EXCEPT !.status = "failed", !.completed_at = TS,
                !.error_message = e]

\* A variant that leaves completed_at unset.
MarkCompletedRow_NoTimestamp(row) ==
    [row EXCEPT !.status = "completed"]

\* JobRepository.mark_completed: the values written to the job row.
MarkCompletedRow(row) ==
    [row EXCEPT !.status = "completed", !.completed_at = TS]

\* A variant of the except block that only logs the failure.
MarkFailed_LogOnly(w) ==
    /\ wk[w].pc = "mark_failed"
    /\ wk' = [wk EXCEPT ![w] = IdleLocals("loop")]
    /\ UNCHANGED <<jobs, repos, files, shutdown, claimers, execs, finals>>
    /\ UNCHANGED notq

\* The except block of _process_job: mark_failed(job.id, str(e)) in a new
\* session, committed on exit; _process_job returns to _worker_loop.
MarkFailed(w) ==
    /\ wk[w].pc = "mark_failed"
    /\ jobs' = [jobs EXCEPT ![wk[w].job] = MarkFailedRow(@, wk[w].exc)]
    /\ finals' = [finals EXCEPT ![wk[w].job] = @ + 1]
    /\ wk' = [wk EXCEPT ![w] = IdleLocals("loop")]
    /\ UNCHANGED <<repos, files, shutdown, claimers, execs>>
    /\ UNCHANGED notq

\* _process_job after parse_repository returned: mark_completed(job.id) and
\* the commit of the session; _process_job returns to _worker_loop.
MarkCompleted(w) ==
    /\ wk[w].pc = "mark_completed"
    /\ jobs' = [jobs EXCEPT ![wk[w].job] = MarkCompletedRow(@)]
    /\ finals' = [finals EXCEPT ![wk[w].job] = @ + 1]
    /\ wk' = [wk EXCEPT ![w] = IdleLocals("loop")]
    /\ UNCHANGED <<repos, files, shutdown, claimers, execs>>
    /\ UNCHANGED notq

\* Everything one worker routine can do.
WorkerStep(w) ==
    \/ WorkerExit(w)
    \/ ClaimNext(w)
    \/ CommitClaim(w)
    \/ WaitDone(w)
    \/ StartParse(w)
    \/ \E n \in 0..MaxFiles : Discover(w, n)
    \/ \E bad \in SUBSET Fragile : PersistBatch(w, BatchOf(w) \ bad)
    \/ CommitBatch(w)
    \/ ResolveComplete(w)
    \/ FailHandler(w)
    \/ MarkFailed(w)
    \/ MarkCompleted(w)

QInit ==
    /\ jobs = <<>>
    /\ repos = [r \in Repos |-> NoRepo]
    /\ files = [r \in Repos |-> {}]
    /\ wk = [w \in Workers |-> IdleLocals("loop")]
    /\ shutdown = FALSE
    /\ claimers = [j \in JobIds |-> {}]
    /\ execs = [j \in JobIds |-> 0]
    /\ finals = [j \in JobIds |-> 0]

PIdle ==
    /\ disk = <<>>
    /\ pfiles = {}
    /\ symbols = {}
    /\ refs = {}
    /\ nextId = 1
    /\ pst = [pc |-> "off", run |-> 0, i |-> 0, same |-> FALSE, langs |-> {}]
    /\ snap = NULL
    /\ prepo = NoRepo
    /\ peps = {}
    /\ pflows = {}

IdleRequest ==
    [pc |-> "idle", ep |-> NULL, iteration |-> 0, previous_steps |-> 0,
     failed |-> FALSE, seen |-> {}, del |-> {}, ins |-> {}, result |-> NULL]

FIdle ==
    /\ flows = {}
    /\ fl = [q \in Requests |-> IdleRequest]
    /\ flowId = 1
    /\ gens = 0

\* Detection confirms entry points batch by batch; batch numbers start at 1.
MaxFileBatches == (MaxAnalyze + DetectBatchSize - 1) \div DetectBatchSize

IdleDetect ==
    [pc |-> "idle", force_redetect |-> FALSE, min_confidence |-> MinConfidence,
     n |-> 0, batch |-> 0, pending |-> {}, first |-> 1,
     hist |-> [b \in 1..MaxFileBatches |-> {}]]

DIdle ==
    /\ eps = {}
    /\ cands = {}
    /\ det = IdleDetect
    /\ epId = 1
    /\ ncalls = 0

\* The depths a traversal may be asked for, and the record of the queries
\* made: per depth, whether it was asked and the rows it returned.
Depths == 0..MaxDepth

NotAsked == [asked |-> FALSE, rows |-> {}]

NoQuery == [dir |-> "none", symbol |-> 0, res |-> [d \in Depths |-> NotAsked]]

GIdle ==
    /\ grefs = {}
    /\ gq = NoQuery

\* A worker at the head of its loop with the multiplier it starts with.
IdleBackoff == [pc |-> "loop", backoff_multiplier |-> Unit, wait_time |-> 0]

BIdle ==
    /\ poll = 1
    /\ bk = [w \in Workers |-> IdleBackoff]

Init == QInit /\ PIdle /\ FIdle /\ DIdle /\ GIdle /\ BIdle

Next ==
    \/ \E r \in Repos : CreateRepository(r)
    \/ \E r \in Repos : TriggerReparse(r)
    \/ Stop
    \/ \E w \in Workers : WorkerStep(w)
    \/ \E w \in Workers, e \in Errors : Fail(w, e)

Spec == Init /\ [][Next]_vars

\* Every worker routine is an asyncio task that keeps being scheduled; an
\* injected exception is not owed to anyone.
FairSpec == Spec /\ \A w \in Workers : WF_vars(WorkerStep(w))

\* ------------------------------------------------------- Part I: claims

Terminal == {"completed", "failed"}
InParse == {"discover", "batch", "commit", "resolve", "handler",
            "mark_failed", "mark_completed"}
Created == 1..Len(jobs)

\* C1: each job id is returned by claim_next to at most one worker, and the
\* row of a claimed job carries that worker's id with status parsing once the
\* claim is committed.
C1_ClaimExclusive ==
    \A j \in Created :
        /\ Cardinality(claimers[j]) <= 1
        /\ jobs[j].status = "parsing" => claimers[j] = {jobs[j].worker_id}
        /\ \A w \in Workers :
               (wk[w].job = j /\ wk[w].pc = "process")
                   => (jobs[j].status = "parsing" /\ jobs[j].worker_id = w)

\* Two workers hold uncommitted claims at once: the second skipped the row
\* locked by the first.
C1_Witness ==
    \E w1, w2 \in Workers :
        /\ wk[w1].pc = "claim_commit" /\ wk[w1].job = 1
        /\ wk[w2].pc = "claim_commit" /\ wk[w2].job = 2

C3_NoJobLost ==
    /\ \A j \in JobIds :
           (j \in Created /\ jobs[j].status = "pending")
               ~> (shutdown \/ (j \in Created /\ jobs[j].status # "pending"))
    /\ [](\A j \in Created :
             jobs[j].status # "pending" => Cardinality(claimers[j]) = 1)

\* The second job of the queue was claimed after the first one.
C3_Witness ==
    /\ Len(jobs) >= 2
    /\ jobs[1].status # "pending"
    /\ jobs[2].status = "parsing"
    /\ Cardinality(claimers[2]) = 1

C6_JobLifecycle ==
    /\ [][\A j \in Created :
             jobs'[j].status # jobs[j].status
                 => \/ jobs[j].status = "pending" /\ jobs'[j].status = "parsing"
                    \/ jobs[j].status = "parsing"
                       /\ jobs'[j].status \in Terminal]_vars
    /\ [](\A j \in Created :
             /\ jobs[j].status = "parsing"
                    => (jobs[j].worker_id \in Workers /\ jobs[j].started_at = TS)
             /\ jobs[j].status \in Terminal => jobs[j].completed_at = TS
             /\ jobs[j].status = "pending"
                    => (jobs[j].worker_id = NULL /\ jobs[j].started_at = NULL
                        /\ jobs[j].completed_at = NULL))

\* A completed job and a failed job, both with their timestamps.
C6_Witness ==
    \E j1, j2 \in Created :
        /\ jobs[j1].status = "completed" /\ jobs[j1].completed_at = TS
        /\ jobs[j2].status = "failed" /\ jobs[j2].started_at = TS

\* The events of one parse, in the order the code must produce them for a
\* manifest of the given length: persist 1, commit 1, persist 2, commit 2,
\* ..., and the resolution after the commit of the last batch.
NumBatches(total) == (total + BatchSize - 1) \div BatchSize
OrderedLog(log, total) ==
    /\ \A p \in 1..Len(log) :
           \/ /\ p <= 2 * NumBatches(total)
              /\ p % 2 = 1
              /\ log[p] = <<"persist", (p + 1) \div 2>>
           \/ /\ p <= 2 * NumBatches(total)
              /\ p % 2 = 0
              /\ log[p] = <<"commit", p \div 2>>
           \/ /\ p = 2 * NumBatches(total) + 1
              /\ log[p] = <<"resolve", 0>>

\* C7: within one parse the batches are persisted and committed in discovery
\* order, each commit precedes the next batch, and the cross-file resolution
\* starts after the last commit.
C7_BatchOrder ==
    \A w \in Workers :
        /\ OrderedLog(wk[w].log, wk[w].total)
        /\ wk[w].pc = "mark_completed"
               => Len(wk[w].log) = 2 * NumBatches(wk[w].total) + 1

\* A parse of two batches reached the resolution.
C7_Witness ==
    \E w \in Workers :
        wk[w].log = <<<<"persist", 1>>, <<"commit", 1>>, <<"persist", 2>>,
                      <<"commit", 2>>, <<"resolve", 0>>>>

\* C8: parsed_files <= total_files and 0 <= progress_percentage <= 100 for
\* every repository in every reachable state.
C8_ProgressBounded ==
    \A r \in Repos :
        /\ 0 <= repos[r].parsed_files
        /\ repos[r].parsed_files <= repos[r].total_files
        /\ 0 <= ProgressNum(repos[r])
        /\ ProgressNum(repos[r]) <= 100 * ProgressDen(repos[r])

\* A reparse found fewer files than the parse before it had processed.
C8_Witness ==
    \E r \in Repos, w \in Workers :
        /\ wk[w].job = 2 /\ RepoOf(w) = r
        /\ jobs[1].repo = r /\ jobs[1].status = "completed"
        /\ wk[w].pc = "commit"
        /\ wk[w].total < Cardinality(files[r])
        /\ repos[r].parsed_files < repos[r].total_files

\* The jobs of a repository that are in status parsing.
ParsingJobsOf(r) ==
    {j \in Created : jobs[j].repo = r /\ jobs[j].status = "parsing"}

\* C22: at most one job per repository is in status parsing and no two
\* workers are inside parse_repository for the same repository, also when a
\* reparse is triggered while an earlier job of the repository is pending or
\* parsing.
C22_OneParsePerRepo ==
    /\ \A r \in Repos : Cardinality(ParsingJobsOf(r)) <= 1
    /\ \A w1 \in Workers, w2 \in Workers :
           (w1 # w2 /\ wk[w1].pc \in InParse /\ wk[w2].pc \in InParse)
               => RepoOf(w1) # RepoOf(w2)

\* C27: a job is marked completed only while its repository is in status
\* completed, and marked failed only while its repository is in status
\* failed.
C27_JobAgreesWithRepo ==
    [][\A j \in Created :
          (jobs[j].status \notin Terminal /\ jobs'[j].status \in Terminal)
              => repos'[jobs[j].repo].status = jobs'[j].status]_vars

\* C30: a repository in status completed has no error_message, also when
\* the completed parse follows a failed one.
C30_CompletedHasNoError ==
    \A r \in Repos :
        repos[r].status = "completed" => repos[r].error_message = NULL

\* ----------------------------------------------------------- Part II: text
\* Text is a sequence of one-character strings, so that the conversions
\* between file paths and dotted names and the LIKE match are computed.

\* PythonParser.file_extensions
Ext == <<".", "p", "y">>

\* str.replace for a single character.
ReplaceCh(s, a, b) == [k \in 1..Len(s) |-> IF s[k] = a THEN b ELSE s[k]]

EndsWith(s, suf) ==
    /\ Len(s) >= Len(suf)
    /\ SubSeq(s, Len(s) - Len(suf) + 1, Len(s)) = suf

\* The loop over file_extensions that cuts a trailing extension.
StripExt(s) == IF EndsWith(s, Ext) THEN SubSeq(s, 1, Len(s) - Len(Ext)) ELSE s

HasDot(s) == \E k \in 1..Len(s) : s[k] = "."
LastDot(s) ==
    CHOOSE k \in 1..Len(s) : s[k] = "." /\ \A m \in (k + 1)..Len(s) : s[m] # "."

\* ".".join(name.split(".")[:-1]) and name.split(".")[-1]
BeforeLastDot(s) == SubSeq(s, 1, LastDot(s) - 1)
AfterLastDot(s) == SubSeq(s, LastDot(s) + 1, Len(s))

\* BaseParser._build_qualified_name(file_path, part): separators become
\* dots, then the extension is cut, then the part is appended.
BuildQualifiedName(file_path, part) ==
    StripExt(ReplaceCh(ReplaceCh(file_path, "/", "."), "\\", "."))
        \o <<".">> \o part

\* PythonParser._file_path_to_dot_notation: the extension is cut first.
FilePathToDotNotation(file_path) ==
    ReplaceCh(ReplaceCh(StripExt(file_path), "/", "."), "\\", ".")

\* PythonParser._split_qualified_name: rsplit on the last dot.
SplitQualifiedName(q) ==
    IF HasDot(q) THEN <<BeforeLastDot(q), AfterLastDot(q)>> ELSE <<q, q>>

\* RustParser.file_extensions
RustExt == <<".", "r", "s">>

\* BaseParser._build_qualified_name as the Rust parser inherits it.
RustBuildQualifiedName(file_path, part) ==
    LET module_path == ReplaceCh(ReplaceCh(file_path, "/", "."), "\\", ".") IN
    (IF EndsWith(module_path, RustExt)
     THEN SubSeq(module_path, 1, Len(module_path) - Len(RustExt))
     ELSE module_path) \o <<".">> \o part

Colons == <<":", ":">>
HasColons(s) == \E k \in 1..(Len(s) - 1) : SubSeq(s, k, k + 1) = Colons
LastColons(s) ==
    CHOOSE k \in 1..(Len(s) - 1) :
        /\ SubSeq(s, k, k + 1) = Colons
        /\ \A m \in (k + 1)..(Len(s) - 1) : SubSeq(s, m, m + 1) # Colons

\* RustParser._split_qualified_name: rsplit on the last "::" when there is
\* one, else on the last dot.
RustSplitQualifiedName(q) ==
    IF HasColons(q)
    THEN <<SubSeq(q, 1, LastColons(q) - 1), SubSeq(q, LastColons(q) + 2, Len(q))>>
    ELSE IF HasDot(q) THEN <<BeforeLastDot(q), AfterLastDot(q)>> ELSE <<q, q>>

\* ParserRegistry.get_parser_for_file: the parser is chosen by extension.
LanguageOf(file_path) == IF EndsWith(file_path, RustExt) THEN "rust" ELSE "python"

\* column LIKE '%' || pat || '%': pat occurs somewhere in s, an underscore
\* of the pattern standing for any one character.
LikeContains(s, pat) ==
    \E off \in 0..(Len(s) - Len(pat)) :
        \A k \in 1..Len(pat) : pat[k] = "_" \/ pat[k] = s[off + k]

\* --------------------------------------------------------- Part II: parser

ImportPrefix == <<"i", "m", "p", "o", "r", "t", ":">>

\* ctx.current_scope outside every class and function.
NoScope == <<>>

\* PythonParser._add_import_symbol_and_reference
AddImportSymbolAndReference(file_path, module_name) ==
    [symbols |->
        <<[name |-> module_name,
           qualified_name |->
               BuildQualifiedName(file_path, ImportPrefix \o module_name),
           kind |-> "import", parent_qualified_name |-> NoScope]>>,
     references |->
        <<[source_file_path |-> FilePathToDotNotation(file_path),
           source_symbol_name |-> <<"<", "f", "i", "l", "e", ">">>,
           target_file_path |-> IF HasDot(module_name)
                                THEN BeforeLastDot(module_name)
                                ELSE module_name,
           target_symbol_name |-> IF HasDot(module_name)
                                  THEN AfterLastDot(module_name)
                                  ELSE module_name,
           reference_type |-> "import"]>>]

\* PythonParser._process_call inside the scope of a function: the target
\* path of an undotted call is the caller's own module.
ProcessCall(current_scope, call_name) ==
    LET split == SplitQualifiedName(current_scope) IN
    [source_file_path |-> split[1],
     source_symbol_name |-> split[2],
     target_file_path |-> IF HasDot(call_name)
                          THEN BeforeLastDot(call_name) ELSE split[1],
     target_symbol_name |-> IF HasDot(call_name)
                            THEN AfterLastDot(call_name) ELSE call_name,
     reference_type |-> "call"]

\* PythonParser._process_function for a module-level def: the symbol, then
\* the calls of its body with the function as the scope.
ProcessFunction(file_path, node) ==
    LET qualified_name == BuildQualifiedName(file_path, node.name) IN
    [symbols |->
        <<[name |-> node.name, qualified_name |-> qualified_name,
           kind |-> "function", parent_qualified_name |-> NoScope]>>,
     references |->
        [k \in 1..Len(node.calls) |-> ProcessCall(qualified_name, node.calls[k])]]

\* The MEMBER reference from a scope to a symbol defined in it.
MemberReference(parent, member) ==
    [source_file_path |-> parent[1], source_symbol_name |-> parent[2],
     target_file_path |-> member[1], target_symbol_name |-> member[2],
     reference_type |-> "member"]

\* PythonParser._process_function for a def inside a scope: a method named
\* scope.name, the member reference from the scope, then the calls of its
\* body.
ProcessMethod(current_scope, node) ==
    LET qualified_name == current_scope \o <<".">> \o node.name IN
    [symbols |->
        <<[name |-> node.name, qualified_name |-> qualified_name,
           kind |-> "method", parent_qualified_name |-> current_scope]>>,
     references |->
        <<MemberReference(SplitQualifiedName(current_scope),
                          SplitQualifiedName(qualified_name))>>
            \o [k \in 1..Len(node.calls) |->
                    ProcessCall(qualified_name, node.calls[k])]]

\* The body of a class: its defs, in order, with the class as the scope.
RECURSIVE ProcessClassBody(_, _, _)
ProcessClassBody(current_scope, body, k) ==
    IF k > Len(body)
    THEN [symbols |-> <<>>, references |-> <<>>]
    ELSE LET h == ProcessMethod(current_scope, body[k])
             t == ProcessClassBody(current_scope, body, k + 1)
         IN [symbols |-> h.symbols \o t.symbols,
             references |-> h.references \o t.references]

\* PythonParser._process_class for a module-level class: one inheritance
\* reference per base, the class symbol, then the body.
ProcessClass(file_path, node) ==
    LET qualified_name == BuildQualifiedName(file_path, node.name)
        source == SplitQualifiedName(qualified_name)
        members == ProcessClassBody(qualified_name, node.body, 1)
    IN [symbols |->
            <<[name |-> node.name, qualified_name |-> qualified_name,
               kind |-> "class", parent_qualified_name |-> NoScope]>>
                \o members.symbols,
        references |->
            [k \in 1..Len(node.bases) |->
                [source_file_path |-> source[1],
                 source_symbol_name |-> source[2],
                 target_file_path |-> node.bases[k],
                 target_symbol_name |-> node.bases[k],
                 reference_type |-> "inheritance"]]
                \o members.references]

\* PythonParser._process_import_from: one import per imported name, named
\* module_name.imported_name.
RECURSIVE ProcessImportFrom(_, _, _)
ProcessImportFrom(file_path, node, k) ==
    IF k > Len(node.names)
    THEN [symbols |-> <<>>, references |-> <<>>]
    ELSE LET h == AddImportSymbolAndReference(
                      file_path, node.module_name \o <<".">> \o node.names[k])
             t == ProcessImportFrom(file_path, node, k + 1)
         IN [symbols |-> h.symbols \o t.symbols,
             references |-> h.references \o t.references]

\* PythonParser._process_node over the statements of a module, in order.
RECURSIVE ProcessNode(_, _, _)
ProcessNode(file_path, body, k) ==
    IF k > Len(body)
    THEN [symbols |-> <<>>, references |-> <<>>]
    ELSE LET h == CASE body[k].type = "function_definition" ->
                           ProcessFunction(file_path, body[k])
                    [] body[k].type = "class_definition" ->
                           ProcessClass(file_path, body[k])
                    [] OTHER -> ProcessImportFrom(file_path, body[k], 1)
             t == ProcessNode(file_path, body, k + 1)
         IN [symbols |-> h.symbols \o t.symbols,
             references |-> h.references \o t.references]

\* RustParser._process_function: inside a scope the name is joined to the
\* scope with "::" and the scope gets a member reference to the function.
RustProcessFunction(file_path, current_scope, node) ==
    LET qualified_name ==
            IF current_scope # NoScope
            THEN current_scope \o Colons \o node.name
            ELSE RustBuildQualifiedName(file_path, node.name)
    IN [symbols |->
            <<[name |-> node.name, qualified_name |-> qualified_name,
               kind |-> "function", parent_qualified_name |-> current_scope]>>,
        references |->
            IF current_scope # NoScope
            THEN <<MemberReference(RustSplitQualifiedName(current_scope),
                                   RustSplitQualifiedName(qualified_name))>>
            ELSE <<>>]

\* The body of a trait or an impl block: its function items, in order, with
\* the block as the scope.
RECURSIVE RustProcessBody(_, _, _, _)
RustProcessBody(file_path, current_scope, body, k) ==
    IF k > Len(body)
    THEN [symbols |-> <<>>, references |-> <<>>]
    ELSE LET h == RustProcessFunction(file_path, current_scope, body[k])
             t == RustProcessBody(file_path, current_scope, body, k + 1)
         IN [symbols |-> h.symbols \o t.symbols,
             references |-> h.references \o t.references]

\* RustParser._process_trait for a top-level trait.
RustProcessTrait(file_path, node) ==
    LET qualified_name == RustBuildQualifiedName(file_path, node.name)
        members == RustProcessBody(file_path, qualified_name, node.body, 1)
    IN [symbols |->
            <<[name |-> node.name, qualified_name |-> qualified_name,
               kind |-> "trait", parent_qualified_name |-> NoScope]>>
                \o members.symbols,
        references |-> members.references]

ImplWord == <<"i", "m", "p", "l", " ">>
ForWord == <<" ", "f", "o", "r", " ">>

\* RustParser._process_impl for a top-level impl block: the symbol is named
\* "impl Type", or "impl Trait for Type" with an inheritance reference to
\* the trait.
RustProcessImpl(file_path, node) ==
    LET impl_name ==
            IF node.trait # NoScope
            THEN ImplWord \o node.trait \o ForWord \o node.type_name
            ELSE ImplWord \o node.type_name
        qualified_name == RustBuildQualifiedName(file_path, impl_name)
        source == RustSplitQualifiedName(qualified_name)
        members == RustProcessBody(file_path, qualified_name, node.body, 1)
    IN [symbols |->
            <<[name |-> impl_name, qualified_name |-> qualified_name,
               kind |-> "impl", parent_qualified_name |-> NoScope]>>
                \o members.symbols,
        references |->
            (IF node.trait # NoScope
             THEN <<[source_file_path |-> source[1],
                     source_symbol_name |-> source[2],
                     target_file_path |-> node.trait,
                     target_symbol_name |-> node.trait,
                     reference_type |-> "inheritance"]>>
             ELSE <<>>) \o members.references]

\* RustParser._process_node over the items of a file, in order.
RECURSIVE RustProcessNode(_, _, _)
RustProcessNode(file_path, body, k) ==
    IF k > Len(body)
    THEN [symbols |-> <<>>, references |-> <<>>]
    ELSE LET h == CASE body[k].type = "trait_item" ->
                           RustProcessTrait(file_path, body[k])
                    [] body[k].type = "impl_item" ->
                           RustProcessImpl(file_path, body[k])
                    [] OTHER -> RustProcessFunction(file_path, NoScope, body[k])
             t == RustProcessNode(file_path, body, k + 1)
         IN [symbols |-> h.symbols \o t.symbols,
             references |-> h.references \o t.references]

\* _parse_file_in_process: the parser of the file's language parses it.
Parse(f) ==
    IF LanguageOf(f.relative_path) = "rust"
    THEN RustProcessNode(f.relative_path, f.body, 1)
    ELSE ProcessNode(f.relative_path, f.body, 1)

\* ------------------------------------------------------ Part II: the input

Pkg == <<"p", "k", "g">>
NameX == <<"x">>
NameY == <<"y">>
NameZ == <<"z">>
NameA == <<"a">>
NameK == <<"K">>
NameM == <<"m">>
NameB == <<"B">>
NameT == <<"T">>
NameF == <<"F">>
NameN == <<"n">>

FunctionDef(name, calls) ==
    [type |-> "function_definition", name |-> name, calls |-> calls]
ClassDef(name, bases, body) ==
    [type |-> "class_definition", name |-> name, bases |-> bases,
     body |-> body]
FunctionItem(name) == [type |-> "function_item", name |-> name]
TraitItem(name, body) == [type |-> "trait_item", name |-> name, body |-> body]
ImplItem(type_name, trait, body) ==
    [type |-> "impl_item", type_name |-> type_name, trait |-> trait,
     body |-> body]
ImportFrom(module_name, names) ==
    [type |-> "import_from_statement", module_name |-> module_name,
     names |-> names]

\* The source files a repository directory may hold, in relative_path order:
\*   pkg/a.py   def x(): ...
\*   pkg/b.py   from pkg.a import x;  def y(): x()
\*   pkg/c.py   from pkg import a;    def z(): a.x()
\*   pkg/k.py   class K(B):  def m(self): ...
\*   q/a.py     def x(): ...
\*   s/l.rs     trait T { fn m() {} }   impl F { fn n() {} }
Pool ==
    <<[relative_path |-> Pkg \o <<"/", "a">> \o Ext,
       body |-> <<FunctionDef(NameX, <<>>)>>],
      [relative_path |-> Pkg \o <<"/", "b">> \o Ext,
       body |-> <<ImportFrom(Pkg \o <<".", "a">>, <<NameX>>),
                  FunctionDef(NameY, <<NameX>>)>>],
      [relative_path |-> Pkg \o <<"/", "c">> \o Ext,
       body |-> <<ImportFrom(Pkg, <<NameA>>),
                  FunctionDef(NameZ, <<NameA \o <<".">> \o NameX>>)>>],
      [relative_path |-> Pkg \o <<"/", "k">> \o Ext,
       body |-> <<ClassDef(NameK, <<NameB>>, <<FunctionDef(NameM, <<>>)>>)>>],
      [relative_path |-> <<"q", "/", "a">> \o Ext,
       body |-> <<FunctionDef(NameX, <<>>)>>],
      [relative_path |-> <<"s", "/", "l">> \o RustExt,
       body |-> <<TraitItem(NameT, <<FunctionItem(NameM)>>),
                  ImplItem(NameF, NoScope, <<FunctionItem(NameN)>>)>>]>>

\* discover_files: the files of the chosen directory, sorted by
\* relative_path (the order of Pool).
RECURSIVE Manifest(_, _)
Manifest(chosen, k) ==
    IF k > Len(Pool) THEN <<>>
    ELSE (IF k \in chosen THEN <<Pool[k]>> ELSE <<>>) \o Manifest(chosen, k + 1)

Directories ==
    {Manifest(chosen, 1) :
        chosen \in {c \in SUBSET (1..Len(Pool)) : Cardinality(c) <= MaxDisk}}

\* --------------------------------------------------- Part II: the database

\* A NULL target_symbol_id.
NoId == 0

MaxOf(S) == CHOOSE k \in S : \A m \in S : m <= k

\* SymbolRepository.bulk_insert_from_parsed_file.  Deleting the file's
\* symbols deletes the references that start at them (ON DELETE CASCADE)
\* and clears target_symbol_id of the references that point to them (ON
\* DELETE SET NULL).  New rows take fresh ids from base on.  A symbol's
\* parent is looked up among the symbols inserted so far; the parsers set no
\* legacy qualified names.
BulkInsertFromParsedFile(syms, rfs, file_id, parsed, base) ==
    LET gone == {s.id : s \in {t \in syms : t.file_id = file_id}}
        keptSyms == {s \in syms : s.file_id # file_id}
        keptRefs ==
            {[r EXCEPT !.target_symbol_id = IF @ \in gone THEN NoId ELSE @] :
                r \in {q \in rfs : q.source_symbol_id \notin gone}}
        n == Len(parsed.symbols)
        m == Len(parsed.references)
        \* qualified_name_to_id: a later symbol of the same name wins
        QnToId(q) ==
            LET ks == {k \in 1..n : parsed.symbols[k].qualified_name = q} IN
            IF ks = {} THEN NoId ELSE base + MaxOf(ks) - 1
        SourceId(ref) ==
            LET byName == QnToId(ref.source_file_path \o <<".">>
                                     \o ref.source_symbol_name) IN
            IF byName # NoId THEN byName ELSE QnToId(ref.source_file_path)
        ParentId(k) ==
            LET ks == {j \in 1..k : parsed.symbols[j].qualified_name =
                                       parsed.symbols[k].parent_qualified_name}
            IN IF parsed.symbols[k].parent_qualified_name = NoScope \/ ks = {}
               THEN NoId ELSE base + MaxOf(ks) - 1
        newSyms ==
            {[id |-> base + k - 1, file_id |-> file_id,
              name |-> parsed.symbols[k].name,
              qualified_name |-> parsed.symbols[k].qualified_name,
              kind |-> parsed.symbols[k].kind,
              parent_symbol_id |-> ParentId(k)] : k \in 1..n}
        stored == {k \in 1..m : SourceId(parsed.references[k]) # NoId}
        newRefs ==
            {[id |-> base + n + k - 1,
              source_symbol_id |-> SourceId(parsed.references[k]),
              target_symbol_id |->
                  QnToId(parsed.references[k].target_file_path \o <<".">>
                             \o parsed.references[k].target_symbol_name),
              source_file_path |-> parsed.references[k].source_file_path,
              source_symbol_name |-> parsed.references[k].source_symbol_name,
              target_file_path |-> parsed.references[k].target_file_path,
              target_symbol_name |-> parsed.references[k].target_symbol_name,
              reference_type |-> parsed.references[k].reference_type] :
                k \in stored}
    IN [symbols |-> keptSyms \cup newSyms,
        refs |-> keptRefs \cup newRefs,
        nextId |-> base + n + m]

\* str(ULID()) for a new row of a table: an id that no row of the table
\* holds.
FreshId(rows) == IF rows = {} THEN 1 ELSE MaxOf({r.id : r \in rows}) + 1

\* entry_points.symbol_id is a foreign key ON DELETE CASCADE: the entry
\* points left when the symbols of a file are deleted.
EntryPointsAfterDelete(entry_points, syms, file_id) ==
    {e \in entry_points :
        e.symbol_id \notin {t.id : t \in {u \in syms : u.file_id = file_id}}}

\* entry_point_flows.entry_point_id is a foreign key ON DELETE CASCADE: the
\* flows left when only these entry points are.
FlowsAfterDelete(fls, entry_points) ==
    {f \in fls : f.entry_point_id \in {e.id : e \in entry_points}}

\* The subquery of resolve_cross_file_references: the symbols with the
\* reference's target name in a file whose path contains the target path
\* with its dots turned into slashes.
Matches(ref, syms, fls) ==
    {s \in syms :
        /\ s.name = ref.target_symbol_name
        /\ \E f \in fls :
               /\ f.id = s.file_id
               /\ LikeContains(f.relative_path,
                               ReplaceCh(ref.target_file_path, ".", "/"))}

\* What a parse left in the database, ids of symbols and references aside:
\* the symbol tuples, the reference tuples and, for every reference, the
\* symbol it is resolved to (none, or its qualified name and file).
ResolvedTo(ref, syms) ==
    IF ref.target_symbol_id = NoId THEN <<>>
    ELSE LET s == CHOOSE t \in syms : t.id = ref.target_symbol_id IN
         <<s.qualified_name, s.file_id>>

RefTuple(ref) ==
    <<ref.source_file_path, ref.source_symbol_name, ref.target_file_path,
      ref.target_symbol_name, ref.reference_type>>

Stored(syms, rfs) ==
    [symbols |-> {<<s.name, s.qualified_name, s.kind, s.file_id>> : s \in syms},
     references |-> {RefTuple(r) : r \in rfs},
     resolution |-> {<<RefTuple(r), ResolvedTo(r, syms)>> : r \in rfs}]

\* -------------------------------------------------------- Part II: actions

\* RepoRepository.create with the column default of languages.
NewParseRepo ==
    [status |-> "pending", total_files |-> 0, parsed_files |-> 0,
     languages |-> <<>>]

\* sorted(list(detected_languages))
LanguageList(langs) ==
    (IF "python" \in langs THEN <<"python">> ELSE <<>>)
        \o (IF "rust" \in langs THEN <<"rust">> ELSE <<>>)

\* The content of the repository's directory changes between two parses.
ChangeDirectory ==
    /\ pst.pc = "done"
    /\ pst.run < MaxParses
    /\ disk' \in Directories \ {disk}
    /\ pst' = [pst EXCEPT !.pc = "idle"]
    /\ UNCHANGED <<pfiles, symbols, refs, nextId, snap, prepo, peps, pflows>>
    /\ UNCHANGED notp

\* A job starts parse_repository, for the first parse of the repository
\* or for a reparse (of the unchanged directory when it starts from done):
\* update_status(PARSING), discover_files, update_progress(total, 0).
ParseBegin ==
    /\ pst.pc \in {"idle", "done"}
    /\ pst.run < MaxParses
    /\ pst' = [pc |-> "files", run |-> pst.run + 1, i |-> 1,
               same |-> (pst.pc = "done"), langs |-> {}]
    /\ prepo' = [prepo EXCEPT !.status = "parsing",
                              !.total_files = Len(disk),
                              !.parsed_files = 0]
    /\ snap' = Stored(symbols, refs)
    /\ UNCHANGED <<disk, pfiles, symbols, refs, nextId, peps, pflows>>
    /\ UNCHANGED notp

\* _persist_parsed_file for the next file of the manifest:
\* FileRepository.upsert (an existing row keeps its id), then the bulk
\* insert of the file's symbols and references, whose DELETE of the file's
\* symbols cascades to the entry points and their flows.
PersistParsedFile ==
    /\ pst.pc = "files"
    /\ pst.i <= Len(disk)
    /\ LET f == disk[pst.i]
           existing == {r \in pfiles : r.relative_path = f.relative_path}
           file_id == IF existing = {} THEN nextId
                      ELSE (CHOOSE r \in existing : TRUE).id
           base == IF existing = {} THEN nextId + 1 ELSE nextId
           db == BulkInsertFromParsedFile(symbols, refs, file_id, Parse(f), base)
       IN /\ pfiles' = pfiles \cup
                          {[id |-> file_id, relative_path |-> f.relative_path]}
          /\ symbols' = db.symbols
          /\ refs' = db.refs
          /\ nextId' = db.nextId
          /\ peps' = EntryPointsAfterDelete(peps, symbols, file_id)
          /\ pflows' = FlowsAfterDelete(
                           pflows, EntryPointsAfterDelete(peps, symbols, file_id))
    /\ pst' = [pst EXCEPT !.i = @ + 1,
                          !.langs = @ \cup {LanguageOf(disk[pst.i].relative_path)}]
    /\ UNCHANGED <<disk, snap, prepo>>
    /\ UNCHANGED notp

\* The end of the only batch (the manifest is shorter than
\* max_files_per_batch), update_languages when a language was detected,
\* then resolve_cross_file_references and update_status(COMPLETED): every
\* reference without a target that has a matching symbol gets one of its
\* matches.  The subquery ends in LIMIT 1 and has no ORDER BY, so the
\* database may return any of the matching rows.
ResolveCrossFileReferences ==
    /\ pst.pc = "files"
    /\ pst.i > Len(disk)
    /\ LET open == {r \in refs : /\ r.target_symbol_id = NoId
                                 /\ Matches(r, symbols, pfiles) # {}}
       IN \E pick \in [{r.id : r \in open} -> {s.id : s \in symbols}] :
             /\ \A r \in open :
                    pick[r.id] \in {s.id : s \in Matches(r, symbols, pfiles)}
             /\ refs' = {IF r \in open
                         THEN [r EXCEPT !.target_symbol_id = pick[r.id]]
                         ELSE r : r \in refs}
    /\ pst' = [pst EXCEPT !.pc = "done"]
    /\ prepo' = [prepo EXCEPT
                    !.status = "completed",
                    !.parsed_files =
                        IF Len(disk) > 0
                        THEN Min(MaxFilesPerBatch, Len(disk)) ELSE @,
                    !.languages =
                        IF pst.langs # {} THEN LanguageList(pst.langs) ELSE @]
    /\ UNCHANGED <<disk, pfiles, symbols, nextId, snap, peps, pflows>>
    /\ UNCHANGED notp

\* EntryPointRepository.bulk_insert_confirmed for one entry point that a
\* detection on the parsed repository confirmed: a row for a stored symbol.
BulkInsertConfirmed ==
    /\ pst.pc = "done"
    /\ Cardinality(peps) < MaxEntryPoints
    /\ \E t \in symbols :
           /\ \A e \in peps : e.symbol_id # t.id
           /\ peps' = peps \cup {[id |-> FreshId(peps), symbol_id |-> t.id,
                                  file_id |-> t.file_id]}
    /\ UNCHANGED <<disk, pfiles, symbols, refs, nextId, pst, snap, prepo,
                   pflows>>
    /\ UNCHANGED notp

\* FlowRepository.create_or_replace at the end of the flow generation for a
\* stored entry point (one generation per entry point): its flow, if any,
\* is deleted and a new row is added.
CreateOrReplace ==
    /\ pst.pc = "done"
    /\ \E e \in peps :
           /\ \A f \in pflows : f.entry_point_id # e.id
           /\ pflows' = {f \in pflows : f.entry_point_id # e.id}
                            \cup {[id |-> FreshId(pflows),
                                   entry_point_id |-> e.id]}
    /\ UNCHANGED <<disk, pfiles, symbols, refs, nextId, pst, snap, prepo,
                   peps>>
    /\ UNCHANGED notp

ParseInit ==
    /\ QInit
    /\ disk \in Directories
    /\ pfiles = {}
    /\ symbols = {}
    /\ refs = {}
    /\ nextId = 1
    /\ pst = [pc |-> "idle", run |-> 0, i |-> 0, same |-> FALSE, langs |-> {}]
    /\ snap = NULL
    /\ prepo = NewParseRepo
    /\ peps = {}
    /\ pflows = {}
    /\ FIdle
    /\ DIdle
    /\ GIdle
    /\ BIdle

ParseNext ==
    \/ ChangeDirectory
    \/ ParseBegin
    \/ PersistParsedFile
    \/ ResolveCrossFileReferences
    \/ BulkInsertConfirmed
    \/ CreateOrReplace

ParseSpec == ParseInit /\ [][ParseNext]_vars

\* ------------------------------------------------------ Part II: claims

\* C9: a reparse of an unchanged directory leaves the same symbol tuples, the
\* same reference tuples and the same resolution of every reference as the
\* parse before it did.
C9_IdempotentReparse ==
    (pst.pc = "done" /\ pst.same) => Stored(symbols, refs) = snap

\* C10: with pkg/a.py defining x and pkg/b.py importing x from pkg.a and
\* calling x() in y, after the parse and the resolution the call reference
\* stored for y has the id of x of pkg/a.py as its target_symbol_id.
C10_ImportedCallResolved ==
    (pst.pc = "done" /\ disk = <<Pool[1], Pool[2]>>)
        => \E r \in refs, sx \in symbols, sy \in symbols :
              /\ sx.qualified_name = Pkg \o <<".", "a", ".">> \o NameX
              /\ sy.qualified_name = Pkg \o <<".", "b", ".">> \o NameY
              /\ r.reference_type = "call"
              /\ r.source_symbol_id = sy.id
              /\ r.target_symbol_name = NameX
              /\ r.target_symbol_id = sx.id

\* A stored reference whose target was filled in by the cross-file
\* resolution: the bulk insert resolves only to the symbol of the same file
\* whose qualified name is target path "." target name.
CrossResolved(r) ==
    /\ r.target_symbol_id # NoId
    /\ \A t \in symbols :
           t.id = r.target_symbol_id
               => t.qualified_name #
                      r.target_file_path \o <<".">> \o r.target_symbol_name

\* C11: when several symbols match an unresolved reference, the cross-file
\* resolution picks the matching symbol that is first in id order, so the
\* same data always resolves to the same symbol.
C11_TieBreakById ==
    pst.pc = "done"
        => \A r \in refs :
               CrossResolved(r)
                   => \A s \in Matches(r, symbols, pfiles) :
                          r.target_symbol_id <= s.id

\* C12: whenever a parse runs on a directory without admitted files, the
\* repository ends with total_files = 0, parsed_files = 0, status completed,
\* languages = [] and no stored symbols or references.
C12_EmptyDirectory ==
    (pst.pc = "done" /\ Len(disk) = 0)
        => /\ prepo.total_files = 0
           /\ prepo.parsed_files = 0
           /\ prepo.status = "completed"
           /\ prepo.languages = <<>>
           /\ symbols = {}
           /\ refs = {}

\* The references the parser emits for a file, as tuples.
Emitted(f) ==
    {RefTuple(Parse(f).references[i]) : i \in 1..Len(Parse(f).references)}

\* C28: after a parse every reference the parser emitted for a file of the
\* manifest is stored, the import references whose source is <file>
\* included.
C28_EveryReferenceStored ==
    pst.pc = "done"
        => \A k \in 1..Len(disk) :
               Emitted(disk[k]) \subseteq {RefTuple(r) : r \in refs}

\* C26: a step of the reparse of a repository whose files have not changed
\* deletes no stored entry point and no stored flow.
C26_ReparseKeepsEntryPoints ==
    [][(pst.pc = "files" /\ pst.same)
           => (peps \subseteq peps' /\ pflows \subseteq pflows')]_vars

\* The relative paths of the manifest of the parse.
ManifestPaths == {disk[k].relative_path : k \in 1..Len(disk)}

\* C29: after a parse job completes, every stored file row and every stored
\* symbol belongs to a file of that job's manifest.
C29_OnlyManifestFilesStored ==
    pst.pc = "done"
        => /\ \A f \in pfiles : f.relative_path \in ManifestPaths
           /\ \A t \in symbols :
                  \E f \in pfiles :
                      f.id = t.file_id /\ f.relative_path \in ManifestPaths

\* ============================================================== Part III
\* Flow generation.  A request runs FlowService.generate_flow in its own
\* database session (READ COMMITTED): its deletes and inserts are private
\* until the commit, a row it deleted stays locked until then, and the
\* unique index on entry_point_id makes an insert wait for an uncommitted
\* row of the same key and fail against a live one.

FlowsOf(tbl, e) == {r \in tbl : r.entry_point_id = e}

LockedByOther(q) == UNION {fl[o].del : o \in Requests \ {q}}
InsertedByOther(q) == UNION {fl[o].ins : o \in Requests \ {q}}

\* What the route answers for an exception of generate_flow.
StatusOf(exc) == IF exc \in {"ValueError", "bad_json"} THEN "404" ELSE "500"

GenerateFlow(q, e) ==
    /\ fl[q].pc = "idle"
    /\ gens < MaxGenerations
    /\ gens' = gens + 1
    /\ fl' = [fl EXCEPT ![q] =
                 IF e \in StoredEntryPoints
                 THEN [IdleRequest EXCEPT !.pc = "loop", !.ep = e,
                                          !.iteration = 1]
                 ELSE [IdleRequest EXCEPT !.ep = e,
                                          !.result = StatusOf("ValueError")]]
    /\ UNCHANGED <<flows, flowId>>
    /\ UNCHANGED notf

\* The statements after the loop, up to create_or_replace.
AfterLoop(r) ==
    IF r.previous_steps = 0
    THEN [r EXCEPT !.pc = "idle", !.result = StatusOf("ValueError")]
    ELSE [r EXCEPT !.pc = "delete"]

NextIteration(r) ==
    IF r.iteration = Iterations THEN AfterLoop(r)
    ELSE [r EXCEPT !.iteration = @ + 1]

\* One pass of the loop body: nodes says whether the depth range holds any
\* node, out is the outcome of the LLM call.
FlowIteration(q, nodes, out) ==
    /\ fl[q].pc = "loop"
    /\ LET r == fl[q]
       IN  fl' = [fl EXCEPT ![q] =
                 IF ~nodes THEN AfterLoop(r)
                 ELSE IF out.error # NULL
                 THEN IF r.previous_steps = 0
                      THEN [r EXCEPT !.pc = "idle", !.failed = TRUE,
                                     !.result = StatusOf(out.error)]
                      ELSE NextIteration([r EXCEPT !.failed = TRUE])
                 ELSE NextIteration([r EXCEPT !.previous_steps = out.steps])]
    /\ UNCHANGED <<flows, flowId, gens>>
    /\ UNCHANGED notf

\* DELETE ... WHERE entry_point_id = :e takes its snapshot of the committed
\* rows, then locks and deletes each of them; a row locked by another
\* transaction makes the statement wait for that transaction to end, and a
\* row that is gone by then is skipped.
DeleteByEntryPointId(q) ==
    /\ fl[q].pc = "delete"
    /\ fl' = [fl EXCEPT ![q].pc = "deleting",
                        ![q].seen = FlowsOf(flows, fl[q].ep)]
    /\ UNCHANGED <<flows, flowId, gens>>
    /\ UNCHANGED notf

DeleteFinish(q) ==
    /\ fl[q].pc = "deleting"
    /\ fl[q].seen \cap LockedByOther(q) = {}
    /\ fl' = [fl EXCEPT ![q].pc = "insert",
                        ![q].del = fl[q].seen \cap flows,
                        ![q].seen = {}]
    /\ UNCHANGED <<flows, flowId, gens>>
    /\ UNCHANGED notf

InsertFlow_NoUnique(q) ==
    /\ fl[q].pc = "insert"
    /\ fl' = [fl EXCEPT ![q].pc = "commit",
                        ![q].ins = {[id |-> flowId,
                                     entry_point_id |-> fl[q].ep]}]
    /\ flowId' = flowId + 1
    /\ UNCHANGED <<flows, gens>>
    /\ UNCHANGED notf

\* session.add(model), flush: the INSERT under UNIQUE(entry_point_id).
InsertFlow(q) ==
    /\ fl[q].pc = "insert"
    /\ LET e == fl[q].ep
           live == FlowsOf(flows, e) \ fl[q].del
       IN  /\ live \cap LockedByOther(q) = {}
           /\ FlowsOf(InsertedByOther(q), e) = {}
           /\ IF live # {}
              THEN \* IntegrityError: the request fails and rolls back
                   /\ fl' = [fl EXCEPT ![q].pc = "idle", ![q].del = {},
                                       ![q].result = StatusOf("IntegrityError")]
                   /\ UNCHANGED flowId
              ELSE /\ fl' = [fl EXCEPT ![q].pc = "commit",
                                       ![q].ins = {[id |-> flowId,
                                                    entry_point_id |-> e]}]
                   /\ flowId' = flowId + 1
    /\ UNCHANGED <<flows, gens>>
    /\ UNCHANGED notf

CommitFlow(q) ==
    /\ fl[q].pc = "commit"
    /\ flows' = (flows \ fl[q].del) \cup fl[q].ins
    /\ fl' = [fl EXCEPT ![q].pc = "idle", ![q].del = {}, ![q].ins = {},
                        ![q].result = "success"]
    /\ UNCHANGED <<flowId, gens>>
    /\ UNCHANGED notf

FlowInit == QInit /\ PIdle /\ FIdle /\ DIdle /\ GIdle /\ BIdle

FlowNext ==
    \/ \E q \in Requests, e \in EntryPointIds : GenerateFlow(q, e)
    \/ \E q \in Requests, nodes \in BOOLEAN, out \in LLMOutcomes :
           FlowIteration(q, nodes, out)
    \/ \E q \in Requests : DeleteByEntryPointId(q)
    \/ \E q \in Requests : DeleteFinish(q)
    \/ \E q \in Requests : InsertFlow(q)
    \/ \E q \in Requests : CommitFlow(q)

FlowSpec == FlowInit /\ [][FlowNext]_vars

\* ----------------------------------------------------- Part III: claims

\* The flows a request's own transaction sees: the committed rows without
\* the ones it deleted, with the ones it inserted.
ViewOf(q) == (flows \ fl[q].del) \cup fl[q].ins

AtMostOneFlow(tbl) ==
    \A e \in StoredEntryPoints : Cardinality(FlowsOf(tbl, e)) <= 1

\* C13: generating a flow for an entry point that already has one replaces
\* it in one atomic step: no step leaves the entry point without a flow or
\* with two, and at no time, a generation in progress or not, do two flows
\* of one entry point exist, in the table or in any transaction's view.
C13_AtomicReplace ==
    /\ [](AtMostOneFlow(flows) /\ \A q \in Requests : AtMostOneFlow(ViewOf(q)))
    /\ [][\A e \in StoredEntryPoints :
              FlowsOf(flows, e) # {}
                  => Cardinality(FlowsOf(flows', e)) = 1]_vars

\* A request is about to commit the replacement of a stored flow while the
\* other request's generation for the same entry point is in progress.
C13_Witness ==
    \E q \in Requests, o \in Requests :
        /\ q # o
        /\ fl[q].pc = "commit"
        /\ fl[q].del # {}
        /\ fl[q].ins # {}
        /\ fl[o].pc = "deleting"
        /\ fl[o].ep = fl[q].ep

\* C14: when the LLM call of an iteration of generate_flow fails, the
\* request reports a failure to its caller: no request during which an LLM
\* call failed is answered with success.
C14_FailureSurfaced ==
    \A q \in Requests : fl[q].failed => fl[q].result # "success"

\* C24: at iteration 1 the loop does not stop on an empty depth range: the
\* LLM is called with the entry-point symbol, so the step from iteration 1
\* either fails on the LLM call or goes on to iteration 2.
C24_FirstIterationCallsLLM ==
    [][\A q \in Requests :
          (fl[q].pc = "loop" /\ fl[q].iteration = 1 /\ fl'[q] # fl[q])
              => (fl'[q].failed \/ (fl'[q].pc = "loop" /\ fl'[q].iteration = 2))]_vars

\* C25: an empty step list at an iteration k > 1 leaves the steps of the
\* previous iteration in use: once an iteration has produced steps, the
\* generation keeps steps and does not end for want of steps.
C25_KeepsPreviousSteps ==
    [][\A q \in Requests :
          (fl[q].pc = "loop" /\ fl[q].previous_steps > 0)
              => /\ fl'[q].previous_steps > 0
                 /\ fl'[q].result # StatusOf("ValueError")]_vars

\* =============================================================== Part IV
\* Entry-point detection.  The files to analyze are numbered 1..n in the
\* order of the batches; the symbol an entry point is matched to is named by
\* the number of its file.  Confidences are counted in tenths.

\* What the LLM may answer for an entry point, and what a request may give.
Confidences == {0, 6, 8}
DetectRequests == [force_redetect : BOOLEAN, min_confidence : {5, 7, 9}]
\* Rows the retired candidate detection stored (bulk_insert_candidates).
CandidateRows == {"c1"}

NumFileBatches(n) == (n + DetectBatchSize - 1) \div DetectBatchSize

FileBatch(n, b) ==
    {i \in 1..n : (b - 1) * DetectBatchSize < i /\ i <= b * DetectBatchSize}

\* The files of a batch are interchangeable: the entry points the LLM
\* reports are taken to be in the first MaxReported files of the batch.
Reportable(batch) ==
    {i \in batch : Cardinality({j \in batch : j < i}) < MaxReported}

\* The answers of the LLM for a batch: a failure, or a confidence for each
\* entry point it reports.
LLMAnswers(batch) ==
    {[error |-> TRUE, entry_points |-> <<>>]}
        \cup {[error |-> FALSE, entry_points |-> f] :
                 f \in UNION {[S -> Confidences] :
                                 S \in SUBSET Reportable(batch)}}

DeleteByRepo_Nothing == [entry_points |-> eps, candidates |-> cands]

\* delete(EntryPointModel), delete(EntryPointCandidateModel) of the repo.
DeleteByRepo == [entry_points |-> {}, candidates |-> {}]

\* The route passes force_redetect only; the delete and its commit are one
\* transaction.
DetectEntryPoints(req) ==
    /\ det.pc \in {"idle", "done", "crashed"}
    /\ ncalls < MaxCalls
    /\ ncalls' = ncalls + 1
    /\ det' = [IdleDetect EXCEPT !.pc = "select",
                                 !.force_redetect = req.force_redetect,
                                 !.min_confidence = req.min_confidence,
                                 !.first = epId]
    /\ IF req.force_redetect
       THEN /\ eps' = DeleteByRepo.entry_points
            /\ cands' = DeleteByRepo.candidates
       ELSE UNCHANGED <<eps, cands>>
    /\ UNCHANGED epId
    /\ UNCHANGED notd

\* The LLM suggests file paths; k of the repository's files are among them.
SelectFiles(k) ==
    /\ det.pc = "select"
    /\ LET n == Min(k, MaxFilesForAI)
       IN  det' = IF n = 0
                  THEN [det EXCEPT !.pc = "done"]
                  ELSE [det EXCEPT !.pc = "batch", !.n = n, !.batch = 1]
    /\ UNCHANGED <<eps, cands, epId, ncalls>>
    /\ UNCHANGED notd

NextBatch(d) ==
    IF d.batch = NumFileBatches(d.n)
    THEN [d EXCEPT !.pc = "done", !.pending = {}]
    ELSE [d EXCEPT !.pc = "batch", !.batch = @ + 1, !.pending = {}]

\* _confirm_file_batch: entry points of confidence 0 are skipped, the rest
\* is filtered by the service's threshold; a failed call returns [].
Confirmed(ans) ==
    IF ans.error THEN {}
    ELSE {<<i, ans.entry_points[i]>> : i \in
             {j \in DOMAIN ans.entry_points :
                 /\ ans.entry_points[j] > 0
                 /\ ans.entry_points[j] >= MinConfidence}}

ConfirmFileBatch ==
    /\ det.pc = "batch"
    /\ \E ans \in LLMAnswers(FileBatch(det.n, det.batch)) :
           LET batch_confirmed == Confirmed(ans)
               d == [det EXCEPT !.hist[det.batch] = batch_confirmed]
           IN  det' = IF batch_confirmed = {}
                      THEN NextBatch(d)
                      ELSE [d EXCEPT !.pc = "store",
                                     !.pending = batch_confirmed]
    /\ UNCHANGED <<eps, cands, epId, ncalls>>
    /\ UNCHANGED notd

Rank(x, S) == Cardinality({y \in S : y[1] < x[1]})

StoreBatchConfirmed_NoCommit ==
    /\ det.pc = "store"
    /\ det' = NextBatch(det)
    /\ epId' = epId + Cardinality(det.pending)
    /\ UNCHANGED <<eps, cands, ncalls>>
    /\ UNCHANGED notd

\* store_batch_confirmed: bulk_insert_confirmed and session.commit().
StoreBatchConfirmed ==
    /\ det.pc = "store"
    /\ eps' = eps \cup {[id |-> epId + Rank(x, det.pending),
                         symbol_id |-> x[1],
                         ai_confidence |-> x[2]] : x \in det.pending}
    /\ epId' = epId + Cardinality(det.pending)
    /\ det' = NextBatch(det)
    /\ UNCHANGED <<cands, ncalls>>
    /\ UNCHANGED notd

\* The process dies during a detection: what is not committed is lost.
Crash ==
    /\ det.pc \in {"select", "batch", "store"}
    /\ det' = [det EXCEPT !.pc = "crashed", !.pending = {}]
    /\ UNCHANGED <<eps, cands, epId, ncalls>>
    /\ UNCHANGED notd

DetectInit ==
    /\ QInit /\ PIdle /\ FIdle /\ GIdle /\ BIdle
    /\ eps = {}
    /\ cands \in SUBSET CandidateRows
    /\ det = IdleDetect
    /\ epId = 1
    /\ ncalls = 0

DetectNext ==
    \/ \E req \in DetectRequests : DetectEntryPoints(req)
    \/ \E k \in 0..MaxAnalyze : SelectFiles(k)
    \/ ConfirmFileBatch
    \/ StoreBatchConfirmed
    \/ Crash

DetectSpec == DetectInit /\ [][DetectNext]_vars

\* ------------------------------------------------------ Part IV: claims

\* The entry points the current call has stored, as (symbol, confidence).
StoredByCall ==
    {<<r.symbol_id, r.ai_confidence>> : r \in {x \in eps : x.id >= det.first}}

C16_ForceRedetect ==
    (det.force_redetect /\ det.pc # "idle")
        => /\ \A r \in eps : r.id >= det.first
           /\ cands = {}
           /\ (det.pc = "done" /\ \A b \in 1..MaxFileBatches : det.hist[b] = {})
                  => eps = {}

\* A forced detection on a repository with two or more stored entry points
\* has asked the LLM about its files, got nothing confirmed and ended.
C16_Witness ==
    /\ det.force_redetect
    /\ det.pc = "done"
    /\ det.first > 2
    /\ det.n > 0
    /\ eps = {}

\* C17: a detection call never stores an entry point whose LLM confidence
\* is below the min_confidence of the call (0.7 when the request gives none).
C17_MinConfidenceOfCall ==
    \A r \in eps : r.id >= det.first => r.ai_confidence >= det.min_confidence

\* ================================================================ Part V
\* Call-graph traversal.  The references table is an input; the two
\* recursive queries of SymbolRepository are computed level by level the
\* way WITH RECURSIVE ... UNION ALL evaluates them, and GraphService turns
\* their rows into nodes.  A null target_symbol_id is NoId, and so is the ""
\* that GraphService puts in its place.

GraphSymbols == 1..4
SymbolName == <<"f1", "f2", "f3", "f4">>

Reference(src, tgt, path, name, type) ==
    [source_symbol_id |-> src, target_symbol_id |-> tgt,
     target_file_path |-> path, target_symbol_name |-> name,
     reference_type |-> type]

Resolved(src, tgt, type) == Reference(src, tgt, "m", SymbolName[tgt], type)

\* f1 -> f2 -> f3 -> f4
Chain ==
    {Resolved(1, 2, "call"), Resolved(2, 3, "call"), Resolved(3, 4, "call")}

\* The references a repository may hold: the chain, an edge closing a
\* cycle, edges of other types, and two calls that resolve to no symbol.
RefPool ==
    Chain \cup {Resolved(4, 1, "call"),
                Resolved(1, 3, "member"),
                Resolved(2, 4, "inheritance"),
                Reference(1, NoId, "os", "getcwd", "call"),
                Reference(1, NoId, "os", "getpid", "call")}

DownRow(r, depth) ==
    [symbol_id |-> r.target_symbol_id,
     target_file_path |-> r.target_file_path,
     target_symbol_name |-> r.target_symbol_name,
     reference_type |-> r.reference_type,
     depth |-> depth]

\* The non-recursive term: WHERE r.source_symbol_id = :symbol_id
DownBase(tbl, s) == {DownRow(r, 1) : r \in {x \in tbl : x.source_symbol_id = s}}

\* The recursive term applied to the rows of the previous pass.
DownStep(tbl, level, max_depth) ==
    {DownRow(p[1], p[2].depth + 1) :
        p \in {q \in tbl \X level :
                  /\ q[1].source_symbol_id = q[2].symbol_id
                  /\ q[2].depth < max_depth
                  /\ q[2].symbol_id # NoId}}

RECURSIVE DownCTE(_, _, _)
DownCTE(tbl, level, max_depth) ==
    IF level = {} THEN {}
    ELSE level \cup DownCTE(tbl, DownStep(tbl, level, max_depth), max_depth)

DownstreamRows_DeepestOnly(tbl, s, max_depth) ==
    {[id |-> d.symbol_id,
      name |-> IF d.symbol_id # NoId THEN SymbolName[d.symbol_id]
               ELSE d.target_symbol_name,
      depth |-> d.depth,
      reference_type |-> d.reference_type,
      target_file_path |-> d.target_file_path,
      target_symbol_name |-> d.target_symbol_name] :
        d \in {x \in DownCTE(tbl, DownBase(tbl, s), max_depth) :
                  x.depth = max_depth}}

\* SELECT DISTINCT ... FROM downstream d LEFT JOIN symbols s, and the dicts
\* built from its rows.
DownstreamRows(tbl, s, max_depth) ==
    {[id |-> d.symbol_id,
      name |-> IF d.symbol_id # NoId THEN SymbolName[d.symbol_id]
               ELSE d.target_symbol_name,
      depth |-> d.depth,
      reference_type |-> d.reference_type,
      target_file_path |-> d.target_file_path,
      target_symbol_name |-> d.target_symbol_name] :
        d \in DownCTE(tbl, DownBase(tbl, s), max_depth)}

UpRow(r, depth) ==
    [symbol_id |-> r.source_symbol_id,
     reference_type |-> r.reference_type,
     depth |-> depth]

UpBase(tbl, s) == {UpRow(r, 1) : r \in {x \in tbl : x.target_symbol_id = s}}

UpStep(tbl, level, max_depth) ==
    {UpRow(p[1], p[2].depth + 1) :
        p \in {q \in tbl \X level :
                  /\ q[1].target_symbol_id = q[2].symbol_id
                  /\ q[2].depth < max_depth}}

RECURSIVE UpCTE(_, _, _)
UpCTE(tbl, level, max_depth) ==
    IF level = {} THEN {}
    ELSE level \cup UpCTE(tbl, UpStep(tbl, level, max_depth), max_depth)

\* SELECT DISTINCT ... FROM upstream u JOIN symbols s
UpstreamRows(tbl, s, max_depth) ==
    {[id |-> u.symbol_id,
      name |-> SymbolName[u.symbol_id],
      depth |-> u.depth,
      reference_type |-> u.reference_type] :
        u \in UpCTE(tbl, UpBase(tbl, s), max_depth)}

\* GraphService: one GraphNode per row, in the order of the rows.
GraphNode(row) ==
    [id |-> row.id, name |-> row.name, depth |-> row.depth,
     reference_type |-> row.reference_type]

\* The results kept are those of one direction and one root symbol.
Record(dir, s, max_depth, rows) ==
    LET q == IF gq.dir = dir /\ gq.symbol = s THEN gq
             ELSE [NoQuery EXCEPT !.dir = dir, !.symbol = s]
    IN  [q EXCEPT !.res[max_depth] = [asked |-> TRUE, rows |-> rows]]

GetDownstream(s, max_depth) ==
    /\ gq' = Record("down", s, max_depth, DownstreamRows(grefs, s, max_depth))
    /\ UNCHANGED grefs
    /\ UNCHANGED notg

GetUpstream(s, max_depth) ==
    /\ gq' = Record("up", s, max_depth, UpstreamRows(grefs, s, max_depth))
    /\ UNCHANGED grefs
    /\ UNCHANGED notg

GraphInit ==
    /\ QInit /\ PIdle /\ FIdle /\ DIdle /\ BIdle
    /\ grefs \in SUBSET RefPool
    /\ gq = NoQuery

GraphNext ==
    \/ \E s \in GraphSymbols, d \in Depths : GetDownstream(s, d)
    \/ \E s \in GraphSymbols, d \in Depths : GetUpstream(s, d)

GraphSpec == GraphInit /\ [][GraphNext]_vars

\* ------------------------------------------------------- Part V: claims

\* The key of a downstream row: its id, or its target address when the id
\* is null, with its reference type.
RowKey(row) ==
    [id |-> row.id,
     target |-> IF row.id # NoId THEN <<>>
                ELSE <<row.target_file_path, row.target_symbol_name>>,
     reference_type |-> row.reference_type]

Keys(rows) == {RowKey(row) : row \in rows}

\* C18: for every symbol s and depths d1 <= d2, every row of
\* downstream(s, d1) is a row of downstream(s, d2), rows compared by id (or
\* target file path and target symbol name when the id is null) and
\* reference type.
C18_DepthMonotone ==
    gq.dir = "down"
        => \A d1 \in Depths, d2 \in Depths :
               (d1 <= d2 /\ gq.res[d1].asked /\ gq.res[d2].asked)
                   => Keys(gq.res[d1].rows) \subseteq Keys(gq.res[d2].rows)

\* A symbol was queried at two depths; the shallower result holds a row
\* without id and the deeper result holds keys the shallower does not.
C18_Witness ==
    /\ gq.dir = "down"
    /\ \E d1 \in Depths, d2 \in Depths :
           /\ d1 < d2
           /\ gq.res[d1].asked
           /\ gq.res[d2].asked
           /\ \E row \in gq.res[d1].rows : row.id = NoId
           /\ Keys(gq.res[d2].rows) \ Keys(gq.res[d1].rows) # {}

\* C19: whatever the reference graph, cyclic or not, downstream(s, max_depth)
\* returns only rows of depth 1..max_depth; on the chain f1 -> f2 -> f3 -> f4,
\* downstream(f1, 2) is f2 at depth 1 and f3 at depth 2, without f4.
C19_DepthBounded ==
    gq.dir = "down"
        => /\ \A d \in Depths :
                  gq.res[d].asked
                      => \A row \in gq.res[d].rows :
                             1 <= row.depth /\ row.depth <= d
           /\ (grefs = Chain /\ gq.symbol = 1 /\ 2 \in Depths /\ gq.res[2].asked)
                  => {<<row.id, row.depth>> : row \in gq.res[2].rows}
                         = {<<2, 1>>, <<3, 2>>}

\* C20: the nodes the graph service returns for a downstream or an upstream
\* query are distinct by (id, depth): no two of them have the same symbol id
\* and the same depth.
C20_DistinctByIdDepth ==
    \A d \in Depths :
        \A r1 \in gq.res[d].rows, r2 \in gq.res[d].rows :
            (GraphNode(r1).id = GraphNode(r2).id
                /\ GraphNode(r1).depth = GraphNode(r2).depth)
                => r1 = r2

\* ------------------------------- Part II: claims over the graph queries

\* The kinds of symbol that hold methods.
Containers == {"class", "impl", "trait"}

\* C21: after a parse, for every stored class, impl or trait C and every
\* stored symbol m whose parent is C, the downstream query of C at depth 1
\* has a row of type member for m and the upstream query of m at depth 1 has
\* a row for C.
C21_MemberRoundTrip ==
    pst.pc = "done"
        => \A c \in symbols, m \in symbols :
               (c.kind \in Containers /\ m.parent_symbol_id = c.id)
                   => /\ \E d \in DownCTE(refs, DownBase(refs, c.id), 1) :
                             d.symbol_id = m.id /\ d.reference_type = "member"
                      /\ \E u \in UpCTE(refs, UpBase(refs, m.id), 1) :
                             u.symbol_id = c.id

\* =============================================================== Part VI
\* The timing of _worker_loop.  Floats are counted in 64ths: the multiplier
\* starts at 1.0 and is multiplied by 1.5 at most six times before the cap
\* applies, so every value it takes is a whole number of 64ths.  Waits are in
\* 64ths of a second.

\* Settings.job_poll_interval_seconds, in seconds: the default and two more.
PollIntervals == {1, 2, 3}

\* backoff_multiplier = 1.0
InitialBackoff == Unit

\* min(backoff_multiplier * 1.5, 10.0)
NextBackoff(b) == Min((b * 3) \div 2, BackoffCap * Unit)

\* What _try_claim_job does for the worker: it returns a job, returns None,
\* or raises.
ClaimOutcomes == {"job", "none", "error"}

\* One pass of the loop body up to its await: a claimed job resets the
\* multiplier and is processed; an empty poll computes the wait from the
\* multiplier and then raises the multiplier; an exception sleeps for twice
\* the poll interval.
TryClaimJob(w, out) ==
    /\ bk[w].pc = "loop"
    /\ bk' = [bk EXCEPT ![w] =
                 CASE out = "job" ->
                        [bk[w] EXCEPT !.pc = "process",
                                      !.backoff_multiplier = InitialBackoff]
                   [] out = "none" ->
                        [bk[w] EXCEPT !.pc = "wait",
                                      !.wait_time = poll * bk[w].backoff_multiplier,
                                      !.backoff_multiplier = NextBackoff(@)]
                   [] out = "error" ->
                        [bk[w] EXCEPT !.pc = "sleep",
                                      !.wait_time = poll * ErrorFactor * Unit]]
    /\ UNCHANGED poll
    /\ UNCHANGED notb

\* _process_job returns.
ProcessJob(w) ==
    /\ bk[w].pc = "process"
    /\ bk' = [bk EXCEPT ![w].pc = "loop"]
    /\ UNCHANGED poll
    /\ UNCHANGED notb

\* asyncio.wait_for ends, by its timeout or by the shutdown event.
WaitFor(w) ==
    /\ bk[w].pc = "wait"
    /\ bk' = [bk EXCEPT ![w].pc = "loop"]
    /\ UNCHANGED poll
    /\ UNCHANGED notb

\* asyncio.sleep(poll_interval * 2) ends.
Sleep(w) ==
    /\ bk[w].pc = "sleep"
    /\ bk' = [bk EXCEPT ![w].pc = "loop"]
    /\ UNCHANGED poll
    /\ UNCHANGED notb

BackoffInit ==
    /\ QInit /\ PIdle /\ FIdle /\ DIdle /\ GIdle
    /\ poll \in PollIntervals
    /\ bk = [w \in Workers |-> IdleBackoff]

BackoffNext ==
    \/ \E w \in Workers, out \in ClaimOutcomes : TryClaimJob(w, out)
    \/ \E w \in Workers : ProcessJob(w)
    \/ \E w \in Workers : WaitFor(w)
    \/ \E w \in Workers : Sleep(w)

BackoffSpec == BackoffInit /\ [][BackoffNext]_vars

\* ------------------------------------------------------ Part VI: claims

\* Ten seconds, in 64ths of a second.
TenSeconds == 10 * Unit

\* C23: an idle worker waits min(poll_interval x backoff, 10 s) between claim
\* attempts; backoff starts at 1, is multiplied by 1.5 after every empty poll
\* up to a cap of 10 and is reset to 1 by a successful claim; no idle wait
\* exceeds 10 seconds, whatever the poll interval.
C23_IdleWaitCapped ==
    /\ [][\A w \in Workers :
             (bk[w].pc = "loop" /\ bk'[w].pc = "wait")
                 => /\ bk'[w].wait_time =
                           Min(poll * bk[w].backoff_multiplier, TenSeconds)
                    /\ bk'[w].backoff_multiplier =
                           Min((bk[w].backoff_multiplier * 3) \div 2, 10 * Unit)]_vars
    /\ [][\A w \in Workers :
             (bk[w].pc = "loop" /\ bk'[w].pc = "process")
                 => bk'[w].backoff_multiplier = Unit]_vars
    /\ [](\A w \in Workers :
             bk[w].pc = "wait" => bk[w].wait_time <= TenSeconds)

====
